---- MODULE Spec2Model ----
(***************************************************************************)
(* A model of ethdebug_converter: the compressed source-map decoder        *)
(* (SourceMapParser), the bytecode scanner                                 *)
(* (parse_bytecode_to_instructions), the record builder                    *)
(* (EthdebugConverter._build_instructions / _build_context) and            *)
(* EthdebugConverter.convert.                                              *)
(*                                                                         *)
(* A Python str is a sequence of one-character strings.  An Optional       *)
(* value is None (the empty sequence) or Some(v) (a one-element sequence). *)
(* A dict is a function over the keys that are present.                    *)
(***************************************************************************)
EXTENDS Integers, Sequences, FiniteSets, TLC

VARIABLES
    srcmap,         \* SourceMapParser.srcmap
    mappings,       \* SourceMapParser.mappings
    calls,          \* number of parse() calls made on the parser
    returned,       \* what each parse() call returned: the object and its value then
    bytecode,       \* the argument of parse_bytecode_to_instructions
    buf,            \* the local `bytecode` after the prefix strip
    i,              \* the scan cursor (in hex digits)
    pc,             \* the running program counter
    instructions,   \* the local `instructions` list
    phase,          \* position in parse_bytecode_to_instructions
    b_instructions, \* _build_instructions: argument `instructions`
    b_mappings,     \* _build_instructions: argument `mappings`
    b_records,      \* _build_instructions: the returned list
    b_done,         \* _build_instructions has returned
    c_mapping,      \* _build_context: argument `mapping`
    c_context,      \* _build_context: the returned value
    c_done,         \* _build_context has returned
    contracts,      \* solc_data['contracts'] as an ordered list of (key, data)
    contract_name,  \* convert: argument contract_name
    environment,    \* convert: argument environment
    result          \* convert: the returned value (or the raised exception)

vars == <<srcmap, mappings, calls, returned,
          bytecode, buf, i, pc, instructions, phase,
          b_instructions, b_mappings, b_records, b_done,
          c_mapping, c_context, c_done,
          contracts, contract_name, environment, result>>

parserVars  == <<srcmap, mappings, calls, returned>>
scanVars    == <<bytecode, buf, i, pc, instructions, phase>>
buildVars   == <<b_instructions, b_mappings, b_records, b_done>>
contextVars == <<c_mapping, c_context, c_done>>
convertVars == <<contracts, contract_name, environment, result>>

----------------------------------------------------------------------------
(* Bounds of the model.                                                    *)

MaxSrcLen == 6
MaxCalls == 2
MaxCodeLen == 7
MaxInstrs == 2
MaxMaps == 2
MaxContracts == 2

----------------------------------------------------------------------------
(* Python values.                                                          *)

None == <<>>
Some(v) == <<v>>
IsNone(o) == o = <<>>
Get(o) == o[1]

\* s[a:b] with 0-based a <= b, b clipped to len(s) as Python does.
Slice(s, a, b) ==
    LET e == IF b > Len(s) THEN Len(s) ELSE b
    IN  IF a >= e THEN <<>> ELSE SubSeq(s, a + 1, e)

\* s.startswith(p)
StartsWith(s, p) == Len(s) >= Len(p) /\ SubSeq(s, 1, Len(p)) = p

\* s.endswith(p)
EndsWith(s, p) ==
    Len(s) >= Len(p) /\ SubSeq(s, Len(s) - Len(p) + 1, Len(s)) = p

\* Index of the first occurrence of the character sep in s, or 0.
RECURSIVE FindChar(_, _, _)
FindChar(s, sep, k) ==
    IF k > Len(s) THEN 0
    ELSE IF s[k] = sep THEN k
    ELSE FindChar(s, sep, k + 1)

\* s.split(sep) for a one-character separator: n separators give n + 1 parts.
RECURSIVE Split(_, _)
Split(s, sep) ==
    LET k == FindChar(s, sep, 1)
    IN  IF k = 0 THEN <<s>>
        ELSE <<SubSeq(s, 1, k - 1)>> \o Split(SubSeq(s, k + 1, Len(s)), sep)

\* All strings over alphabet A of length at most n.
Strings(A, n) == UNION {[1..k -> A] : k \in 0..n}

DecDigit ==
    [c \in {"0", "1", "2", "3", "4", "5", "6", "7", "8", "9"} |->
        CASE c = "0" -> 0 [] c = "1" -> 1 [] c = "2" -> 2 [] c = "3" -> 3
          [] c = "4" -> 4 [] c = "5" -> 5 [] c = "6" -> 6 [] c = "7" -> 7
          [] c = "8" -> 8 [] c = "9" -> 9]

RECURSIVE DecValue(_)
DecValue(s) ==
    IF s = <<>> THEN 0
    ELSE 10 * DecValue(SubSeq(s, 1, Len(s) - 1)) + DecDigit[s[Len(s)]]

\* The digits of a literal int() accepts: an optional sign, then digits.
\* (Surrounding blanks and single underscores between digits, which int()
\* also accepts, are not in the alphabets used here.)
Unsigned(s) == IF s # <<>> /\ s[1] \in {"-", "+"} THEN Tail(s) ELSE s

\* int(s) does not raise ValueError.
IsPyInt(s) ==
    /\ Unsigned(s) # <<>>
    /\ \A k \in 1..Len(Unsigned(s)) : Unsigned(s)[k] \in DOMAIN DecDigit

\* int(s), for a string int() accepts.
PyInt(s) ==
    IF s[1] = "-" THEN 0 - DecValue(Unsigned(s)) ELSE DecValue(Unsigned(s))

----------------------------------------------------------------------------
(* SourceMapParser                                                         *)

\* SourceMapping(start, length, file_index, jump_type, modifier_depth)
SourceMapping(s, l, f, j, m) ==
    [start |-> s, length |-> l, file_index |-> f, jump_type |-> j,
     modifier_depth |-> m]

\* SourceMapParser._parse_int
parse_int_negative_ok(value) ==
    IF value = <<>> THEN None
    ELSE IF IsPyInt(value) THEN Some(PyInt(value))
    ELSE None

parse_int(value) ==
    IF value = <<>> THEN None
    ELSE IF IsPyInt(value)
         THEN (IF PyInt(value) >= 0 THEN Some(PyInt(value)) ELSE None)
         ELSE None

\* parts[k] if len(parts) > k else '' (k is the 0-based index)
Part(parts, k) == IF Len(parts) > k THEN parts[k + 1] ELSE <<>>

\* The five prev_* locals before the loop.
PrevInit == SourceMapping(None, None, None, None, None)

\* jump = parts[3] if len(parts) > 3 and parts[3] else None
JumpField(parts) ==
    IF Len(parts) > 3 /\ parts[4] # <<>> THEN Some(parts[4]) ELSE None

\* The previous value when the parsed one is None.
Carry(parsed, prev) == IF ~IsNone(parsed) THEN parsed ELSE prev

\* One iteration of the loop of parse: the prev_* locals after it.  The
\* mapping appended by the iteration holds the same five values.
ParseEntry(prev, entry) ==
    IF entry = <<>> THEN prev
    ELSE LET parts == Split(entry, ":")
         IN  SourceMapping(
                Carry(parse_int(Part(parts, 0)), prev.start),
                Carry(parse_int(Part(parts, 1)), prev.length),
                Carry(parse_int(Part(parts, 2)), prev.file_index),
                Carry(JumpField(parts), prev.jump_type),
                Carry(parse_int(Part(parts, 4)), prev.modifier_depth))

\* The mappings the loop appends for `entries`, starting from prev.
RECURSIVE ParseLoop(_, _)
ParseLoop(prev, entries) ==
    IF entries = <<>> THEN <<>>
    ELSE LET now == ParseEntry(prev, Head(entries))
         IN  <<now>> \o ParseLoop(now, Tail(entries))

\* self.mappings after one more parse() call.
MappingsAfterParse(ms, s) ==
    IF s = <<>> THEN ms ELSE ms \o ParseLoop(PrevInit, Split(s, ";"))

\* The object parse() returns: a new empty list, or self.mappings itself.
ReturnedObject(s) == IF s = <<>> THEN "new list" ELSE "self.mappings"

\* The present value of a list a parse() call returned.
Deref(r) == IF r.object = "self.mappings" THEN mappings ELSE <<>>

SrcAlphabet == {"1", "-", "i", ":", ";"}

\* The decodings the specification works through, besides every short string.
SrcExamples ==
    { <<"1","0",":","2","0",":","0",":","-",":","0",";",";",";">>,
      <<"0",":","1","0",":","0",":","-",":","0",";","5",":","3",":","0",":","i",":","1">>,
      <<"5",":","1","0",":","0",":","-",":","0",";","-","1",":","1","0",":","0",":","-",":","0">>,
      <<"0",":","1","0",":","0",":","-",":","0",";",";","5",":","3",":","0",":","i",":","1">>,
      <<"0",":","1",":","0",":","x",":","1",";",";",":",":",":","o">>,
      <<"3",":","4",":","1",":","o",":","2",";","-","0",":","+","7",":","x",":",":","-","2">> }

SrcInputs == Strings(SrcAlphabet, MaxSrcLen) \cup SrcExamples

\* SourceMapParser.parse
parse ==
    /\ calls < MaxCalls
    /\ calls' = calls + 1
    /\ mappings' = MappingsAfterParse(mappings, srcmap)
    /\ returned' = Append(returned,
                          [object |-> ReturnedObject(srcmap),
                           value  |-> IF srcmap = <<>> THEN <<>> ELSE mappings'])
    /\ UNCHANGED <<srcmap, scanVars, buildVars, contextVars, convertVars>>

----------------------------------------------------------------------------
(* parse_bytecode_to_instructions                                          *)

Push1 == 96
Push32 == 127
PushBase == 95

HexDigit ==
    [c \in {"0", "1", "2", "3", "4", "5", "6", "7", "8", "9",
            "a", "b", "c", "d", "e", "f", "A", "B", "C", "D", "E", "F"} |->
        CASE c \in DOMAIN DecDigit -> DecDigit[c]
          [] c \in {"a", "A"} -> 10 [] c \in {"b", "B"} -> 11
          [] c \in {"c", "C"} -> 12 [] c \in {"d", "D"} -> 13
          [] c \in {"e", "E"} -> 14 [] c \in {"f", "F"} -> 15]

\* int(opcode_hex, 16) does not raise ValueError, for a two-character slice.
\* (A sign or a blank followed by a digit, which int() also accepts, is not
\* in the alphabets used here.)
IsHexByte(h) == Len(h) = 2 /\ h[1] \in DOMAIN HexDigit /\ h[2] \in DOMAIN HexDigit

\* int(opcode_hex, 16)
Opcode(h) == 16 * HexDigit[h[1]] + HexDigit[h[2]]

\* 0x60 <= opcode <= 0x7f
IsPush(opcode) == Push1 <= opcode /\ opcode <= Push32

\* push_bytes = opcode - 0x5f
PushBytes(opcode) == opcode - PushBase

\* if bytecode.startswith('0x'): bytecode = bytecode[2:]
StripPrefix(b) == IF StartsWith(b, <<"0", "x">>) THEN Slice(b, 2, Len(b)) ELSE b

\* end_idx = i + 2 + (push_bytes * 2)
EndIdx(cur, opcode) == cur + 2 + (PushBytes(opcode) * 2)

\* The bytes of the instruction whose opcode byte is at cursor cur.
InstructionBytes(b, cur, opcode) ==
    IF IsPush(opcode)
    THEN (IF EndIdx(cur, opcode) <= Len(b)
          THEN Slice(b, cur, EndIdx(cur, opcode))
          ELSE Slice(b, cur, Len(b)))
    ELSE Slice(b, cur, cur + 2)

\* pc after the instruction.
NextPc_opcode_only(p, opcode) == p + 1

NextPc(p, opcode) == IF IsPush(opcode) THEN p + 1 + PushBytes(opcode) ELSE p + 1

\* i after the instruction.
NextCursor_opcode_only(cur, opcode) == cur + 2

NextCursor(cur, opcode) == IF IsPush(opcode) THEN EndIdx(cur, opcode) ELSE cur + 2

\* The locals at the top of the while loop.
ScanState(cur, p, ins, ph) == [i |-> cur, pc |-> p, instructions |-> ins, phase |-> ph]

\* One evaluation of the loop condition and, when it holds, of the loop body.
ScanIter(b, st) ==
    IF ~(st.i < Len(b)) THEN [st EXCEPT !.phase = "returned"]
    ELSE IF ~(st.i + 2 <= Len(b)) THEN [st EXCEPT !.phase = "returned"]
    ELSE LET opcode_hex == Slice(b, st.i, st.i + 2)
         IN  IF ~IsHexByte(opcode_hex) THEN [st EXCEPT !.phase = "raised"]
             ELSE LET opcode == Opcode(opcode_hex)
                  IN  ScanState(NextCursor(st.i, opcode),
                                NextPc(st.pc, opcode),
                                Append(st.instructions,
                                       <<st.pc, InstructionBytes(b, st.i, opcode)>>),
                                "loop")

RECURSIVE RunScan(_, _)
RunScan(b, st) == IF st.phase # "loop" THEN st ELSE RunScan(b, ScanIter(b, st))

\* parse_bytecode_to_instructions(bytecode): the final locals, whose phase
\* tells a return from a ValueError.
parse_bytecode_to_instructions(b) ==
    RunScan(StripPrefix(b), ScanState(0, 0, <<>>, "loop"))

CodeAlphabet == {"0", "1", "6", "x"}

CodeExamples ==
    { <<"6","0","0","1","6","0","0","1","0","1">>,
      <<"7","f","0","1">>,
      <<"0","x","6","0","0","1","6","0","0","1","0","1">>,
      <<"0","X","6","0","0","1">>,
      <<"6","1","A","b","c","D","5","B","f">>,
      <<"6","0","0","1","z","z">> }

CodeInputs == Strings(CodeAlphabet, MaxCodeLen) \cup CodeExamples

\* Lines 128-133: the prefix strip and the locals.
ScanBegin ==
    /\ phase = "call"
    /\ buf' = StripPrefix(bytecode)
    /\ i' = 0
    /\ pc' = 0
    /\ instructions' = <<>>
    /\ phase' = "loop"
    /\ UNCHANGED <<bytecode, parserVars, buildVars, contextVars, convertVars>>

ScanApply ==
    LET st == ScanIter(buf, ScanState(i, pc, instructions, phase))
    IN  /\ i' = st.i
        /\ pc' = st.pc
        /\ instructions' = st.instructions
        /\ phase' = st.phase
        /\ UNCHANGED <<bytecode, buf, parserVars, buildVars, contextVars, convertVars>>

\* One pass through the loop body with a whole byte under the cursor.
ScanStep ==
    /\ phase = "loop"
    /\ i < Len(buf)
    /\ i + 2 <= Len(buf)
    /\ ScanApply

\* The else branch: fewer than two digits are left.
ScanBreak ==
    /\ phase = "loop"
    /\ i < Len(buf)
    /\ ~(i + 2 <= Len(buf))
    /\ ScanApply

\* The loop condition fails.
ScanExit ==
    /\ phase = "loop"
    /\ ~(i < Len(buf))
    /\ ScanApply

----------------------------------------------------------------------------
(* EthdebugConverter._build_context and SourceMapping.has_source_location  *)

\* SourceMapping.has_source_location
has_source_location(m) ==
    /\ ~IsNone(m.start)
    /\ ~IsNone(m.length)
    /\ ~IsNone(m.file_index)
    /\ Get(m.file_index) >= 0

\* `if mapping.jump_type:` : neither None nor the empty string.
JumpTruthy(m) == ~IsNone(m.jump_type) /\ Get(m.jump_type) # <<>>

\* context["code"] after the two optional assignments.
CodeDict_depth_zero_kept(m) ==
    (IF ~IsNone(m.modifier_depth) /\ Get(m.modifier_depth) >= 0
     THEN "modifierDepth" :> Get(m.modifier_depth) ELSE <<>>)
    @@ (IF JumpTruthy(m) THEN "jump" :> Get(m.jump_type) ELSE <<>>)
    @@ [source |-> [id |-> Get(m.file_index),
                    range |-> [start |-> Get(m.start), length |-> Get(m.length)]]]

CodeDict(m) ==
    (IF ~IsNone(m.modifier_depth) /\ Get(m.modifier_depth) > 0
     THEN "modifierDepth" :> Get(m.modifier_depth) ELSE <<>>)
    @@ (IF JumpTruthy(m) THEN "jump" :> Get(m.jump_type) ELSE <<>>)
    @@ [source |-> [id |-> Get(m.file_index),
                    range |-> [start |-> Get(m.start), length |-> Get(m.length)]]]

\* EthdebugConverter._build_context: None, or Some(the context dict).
build_context(m) ==
    IF ~has_source_location(m) THEN None
    ELSE Some([code |-> CodeDict(m)])

OptInts(S) == {None} \cup {Some(n) : n \in S}

\* The jump types a mapping is built with: unset, the three markers, and one
\* other non-empty string, which the parser stores as it stands.
JumpTypes == {None, Some(<<"-">>), Some(<<"i">>), Some(<<"o">>), Some(<<"x">>)}

ContextInputs ==
    {SourceMapping(s, l, f, j, m) :
        s \in OptInts({0, 5}), l \in OptInts({0, 3}), f \in OptInts({-1, 0, 1}),
        j \in JumpTypes, m \in OptInts({0, 1, 2})}

\* A call of _build_context.
BuildContext ==
    /\ ~c_done
    /\ c_context' = build_context(c_mapping)
    /\ c_done' = TRUE
    /\ UNCHANGED <<c_mapping, parserVars, scanVars, buildVars, convertVars>>

----------------------------------------------------------------------------
(* EthdebugConverter._build_instructions                                   *)

\* The mapping the loop body reads for the instruction at index idx (0-based)
\* whose program counter is p: mappings[idx] when idx < len(mappings).
MappingFor_by_pc(idx, p, ms) ==
    IF p < Len(ms) THEN Some(ms[p + 1]) ELSE None

MappingFor(idx, p, ms) ==
    IF idx < Len(ms) THEN Some(ms[idx + 1]) ELSE None

\* The dict appended for the instruction (p, opcode_bytes) at index idx.
InstructionDict(idx, p, opcode_bytes, ms) ==
    LET entry   == MappingFor(idx, p, ms)
        context == IF IsNone(entry) THEN None ELSE build_context(Get(entry))
    IN  (IF ~IsNone(context) THEN "context" :> Get(context) ELSE <<>>)
        @@ [pc |-> p, opcode |-> Slice(opcode_bytes, 0, 2), bytes |-> opcode_bytes]

\* EthdebugConverter._build_instructions
build_instructions(ins, ms) ==
    [k \in 1..Len(ins) |-> InstructionDict(k - 1, ins[k][1], ins[k][2], ms)]

InstrPool ==
    { <<0, <<"6", "0", "0", "1">> >>,
      <<2, <<"0", "1">> >>,
      <<1, <<"5", "b">> >> }

MapPool ==
    { SourceMapping(Some(0), Some(10), Some(0), Some(<<"-">>), Some(0)),
      SourceMapping(Some(5), Some(3), Some(0), Some(<<"i">>), Some(1)),
      SourceMapping(Some(7), Some(2), Some(1), None, None),
      SourceMapping(None, Some(3), Some(0), Some(<<"o">>), Some(2)),
      SourceMapping(None, None, None, None, None) }

SeqsUpTo(S, n) == UNION {[1..k -> S] : k \in 0..n}

\* A call of _build_instructions.
BuildInstructions ==
    /\ ~b_done
    /\ b_records' = build_instructions(b_instructions, b_mappings)
    /\ b_done' = TRUE
    /\ UNCHANGED <<b_instructions, b_mappings, parserVars, scanVars, contextVars, convertVars>>

----------------------------------------------------------------------------
(* EthdebugConverter.convert                                               *)

\* d.get(k, default)
DictGet(d, k, default) == IF k \in DOMAIN d THEN d[k] ELSE default

\* `if contract_name:` : neither None nor the empty string.
NameGiven(name) == ~IsNone(name) /\ Get(name) # <<>>

\* key.endswith(f":{contract_name}")
KeyMatches(key, name) == EndsWith(key, <<":">> \o Get(name))

\* The index of the first key the for loop breaks at, or 0.
RECURSIVE FirstMatch(_, _, _)
FirstMatch(cs, name, k) ==
    IF k > Len(cs) THEN 0
    ELSE IF KeyMatches(cs[k][1], name) THEN k
    ELSE FirstMatch(cs, name, k + 1)

\* The index of the contract convert works on, or 0: contract_data is None.
FindContract(cs, name) ==
    IF NameGiven(name) THEN FirstMatch(cs, name, 1) ELSE 1

\* contract_key.split(':')[-1] if ':' in contract_key else contract_key
ActualContractName(key) ==
    IF FindChar(key, ":", 1) # 0
    THEN Split(key, ":")[Len(Split(key, ":"))]
    ELSE key

\* The bytecode string convert decodes.
SelectBytecode_no_fallback(env, data) ==
    IF env = "runtime"
    THEN DictGet(data, "bin-runtime", <<>>)
    ELSE DictGet(data, "bin", <<>>)

SelectBytecode(env, data) ==
    IF env = "runtime"
    THEN DictGet(data, "bin-runtime", DictGet(data, "bin", <<>>))
    ELSE DictGet(data, "bin", <<>>)

\* The source-map string convert decodes.
SelectSrcmap(env, data) ==
    IF env = "runtime"
    THEN DictGet(data, "srcmap-runtime", <<>>)
    ELSE DictGet(data, "srcmap", <<>>)

Returned(v) == [outcome |-> "returned", value |-> v]
Raised(e) == [outcome |-> "raised", value |-> e]

\* SourceMapParser(srcmap).parse() on a parser made for the call.
ParseFresh(s) == IF s = <<>> THEN <<>> ELSE MappingsAfterParse(<<>>, s)

\* The document convert returns.  "sources" (read from the file system by
\* _build_sources) is left out.
Document(env, key, code, ins, ms) ==
    [version |-> 1,
     format |-> "ethdebug",
     environment |-> env,
     contract |-> [name |-> ActualContractName(key),
                   bytecode |-> StripPrefix(code)],
     instructions |-> build_instructions(ins, ms)]

\* Lines 75-106, for the contract (key, data).
ConvertContract(env, key, data) ==
    LET code == SelectBytecode(env, data)
        map  == SelectSrcmap(env, data)
        scan == parse_bytecode_to_instructions(code)
    IN  IF code = <<>> \/ map = <<>> THEN Returned(<<>>)
        ELSE IF scan.phase = "raised" THEN Raised("ValueError")
        ELSE Returned(Document(env, key, code, scan.instructions, ParseFresh(map)))

\* EthdebugConverter.convert
convert(cs, name, env) ==
    IF cs = <<>> THEN Returned(<<>>)
    ELSE LET k == FindContract(cs, name)
         IN  IF k = 0 THEN Returned(<<>>)
             ELSE IF DOMAIN cs[k][2] = {} THEN Returned(<<>>)
             ELSE ConvertContract(env, cs[k][1], cs[k][2])

BinKey == "bin"
BinRuntimeKey == "bin-runtime"
SrcmapKey == "srcmap"
SrcmapRuntimeKey == "srcmap-runtime"

\* A contract's dict: each key absent (None) or present with a string.
ContractData(b, r, s, t) ==
    (IF IsNone(b) THEN <<>> ELSE BinKey :> Get(b))
    @@ (IF IsNone(r) THEN <<>> ELSE BinRuntimeKey :> Get(r))
    @@ (IF IsNone(s) THEN <<>> ELSE SrcmapKey :> Get(s))
    @@ (IF IsNone(t) THEN <<>> ELSE SrcmapRuntimeKey :> Get(t))

Bin == <<"6", "0", "0", "1", "0", "1">>
BinRuntime == <<"0", "x", "6", "1", "0", "1">>
BadBin == <<"6", "0", "z", "z">>
Srcmap == <<"0", ":", "9", ":", "0", ":", "-", ":", "0", ";", ";">>
SrcmapRuntime == <<"5", ":", "3", ":", "1", ":", "i", ":", "2">>

OptStr(s) == {None, Some(<<>>), Some(s)}

\* Every combination of absent, empty and present for the four keys.
AllContractData ==
    {ContractData(b, r, s, t) :
        b \in OptStr(Bin), r \in OptStr(BinRuntime),
        s \in OptStr(Srcmap), t \in OptStr(SrcmapRuntime)}

\* The combinations used where several contracts are listed.
SomeContractData ==
    { ContractData(Some(Bin), Some(BinRuntime), Some(Srcmap), Some(SrcmapRuntime)),
      ContractData(Some(Bin), None, Some(Srcmap), Some(SrcmapRuntime)),
      ContractData(None, Some(BinRuntime), None, Some(SrcmapRuntime)),
      ContractData(Some(Bin), Some(<<>>), Some(Srcmap), Some(SrcmapRuntime)),
      ContractData(Some(Bin), Some(BinRuntime), Some(<<>>), None),
      ContractData(Some(BadBin), None, Some(Srcmap), Some(SrcmapRuntime)),
      ContractData(None, None, None, None) }

ContractKeys ==
    { <<"a", ":", "A">>, <<"b", ":", "A">>, <<"B">> }

ContractNames ==
    { None, Some(<<>>), Some(<<"A">>), Some(<<"B">>) }

DistinctKeys(cs) ==
    \A x, y \in 1..Len(cs) : x # y => cs[x][1] # cs[y][1]

ContractLists ==
    {cs \in SeqsUpTo(ContractKeys \X AllContractData, 1) : TRUE}
    \cup {cs \in SeqsUpTo(ContractKeys \X SomeContractData, MaxContracts) :
            DistinctKeys(cs)}

\* A call of convert.
Convert ==
    /\ result.outcome = "pending"
    /\ result' = convert(contracts, contract_name, environment)
    /\ UNCHANGED <<contracts, contract_name, environment, parserVars, scanVars, buildVars, contextVars>>

----------------------------------------------------------------------------
(* Specifications: one per component, the other components at rest.        *)

\* SourceMapParser(srcmap): a parser made for one source map.
ParserInit ==
    /\ srcmap \in SrcInputs
    /\ mappings = <<>>
    /\ calls = 0
    /\ returned = <<>>
    /\ bytecode = <<>>
    /\ buf = <<>>
    /\ i = 0
    /\ pc = 0
    /\ instructions = <<>>
    /\ phase = "idle"
    /\ b_instructions = <<>>
    /\ b_mappings = <<>>
    /\ b_records = <<>>
    /\ b_done = TRUE
    /\ c_mapping = PrevInit
    /\ c_context = None
    /\ c_done = TRUE
    /\ contracts = <<>>
    /\ contract_name = None
    /\ environment = "create"
    /\ result = [outcome |-> "idle", value |-> <<>>]

ParserNext == parse

ParserSpec == ParserInit /\ [][ParserNext]_vars

\* A call of parse_bytecode_to_instructions(bytecode), before its first line.
ScanInit ==
    /\ srcmap = <<>>
    /\ mappings = <<>>
    /\ calls = 0
    /\ returned = <<>>
    /\ bytecode \in CodeInputs
    /\ buf = bytecode
    /\ i = 0
    /\ pc = 0
    /\ instructions = <<>>
    /\ phase = "call"
    /\ b_instructions = <<>>
    /\ b_mappings = <<>>
    /\ b_records = <<>>
    /\ b_done = TRUE
    /\ c_mapping = PrevInit
    /\ c_context = None
    /\ c_done = TRUE
    /\ contracts = <<>>
    /\ contract_name = None
    /\ environment = "create"
    /\ result = [outcome |-> "idle", value |-> <<>>]

ScanNext ==
    \/ ScanBegin
    \/ ScanStep
    \/ ScanBreak
    \/ ScanExit

ScanSpec == ScanInit /\ [][ScanNext]_vars

\* The scan is one synchronous call: a step that can be taken is taken.
FairScanSpec == ScanSpec /\ WF_vars(ScanNext)

\* The arguments of a call of _build_instructions.
BuildInit ==
    /\ srcmap = <<>>
    /\ mappings = <<>>
    /\ calls = 0
    /\ returned = <<>>
    /\ bytecode = <<>>
    /\ buf = <<>>
    /\ i = 0
    /\ pc = 0
    /\ instructions = <<>>
    /\ phase = "idle"
    /\ b_instructions \in SeqsUpTo(InstrPool, MaxInstrs)
    /\ b_mappings \in SeqsUpTo(MapPool, MaxMaps)
    /\ b_records = <<>>
    /\ b_done = FALSE
    /\ c_mapping = PrevInit
    /\ c_context = None
    /\ c_done = TRUE
    /\ contracts = <<>>
    /\ contract_name = None
    /\ environment = "create"
    /\ result = [outcome |-> "idle", value |-> <<>>]

BuildNext == BuildInstructions

BuildSpec == BuildInit /\ [][BuildNext]_vars

\* The argument of a call of _build_context.
ContextInit ==
    /\ srcmap = <<>>
    /\ mappings = <<>>
    /\ calls = 0
    /\ returned = <<>>
    /\ bytecode = <<>>
    /\ buf = <<>>
    /\ i = 0
    /\ pc = 0
    /\ instructions = <<>>
    /\ phase = "idle"
    /\ b_instructions = <<>>
    /\ b_mappings = <<>>
    /\ b_records = <<>>
    /\ b_done = TRUE
    /\ c_mapping \in ContextInputs
    /\ c_context = None
    /\ c_done = FALSE
    /\ contracts = <<>>
    /\ contract_name = None
    /\ environment = "create"
    /\ result = [outcome |-> "idle", value |-> <<>>]

ContextNext == BuildContext

ContextSpec == ContextInit /\ [][ContextNext]_vars

\* A loaded converter and the arguments of a call of convert.
ConvertInit ==
    /\ srcmap = <<>>
    /\ mappings = <<>>
    /\ calls = 0
    /\ returned = <<>>
    /\ bytecode = <<>>
    /\ buf = <<>>
    /\ i = 0
    /\ pc = 0
    /\ instructions = <<>>
    /\ phase = "idle"
    /\ b_instructions = <<>>
    /\ b_mappings = <<>>
    /\ b_records = <<>>
    /\ b_done = TRUE
    /\ c_mapping = PrevInit
    /\ c_context = None
    /\ c_done = TRUE
    /\ contracts \in ContractLists
    /\ contract_name \in ContractNames
    /\ environment \in {"create", "runtime"}
    /\ result = [outcome |-> "pending", value |-> <<>>]

ConvertNext == Convert

ConvertSpec == ConvertInit /\ [][ConvertNext]_vars

----------------------------------------------------------------------------
(* The source-map decoder: C1, C2, C10 (ParserSpec)                        *)

\* The `;`-delimited segments of a source map; the empty map has none.
Segments(s) == IF s = <<>> THEN <<>> ELSE Split(s, ";")

\* The positional field at 0-based position pos of a segment, '' when omitted.
SegmentField(seg, pos) ==
    LET fields == Split(seg, ":")
    IN  IF pos + 1 <= Len(fields) THEN fields[pos + 1] ELSE <<>>

\* The field is present and reads as a non-negative integer.
FieldCounts(seg, pos) ==
    LET f == SegmentField(seg, pos)
    IN  f # <<>> /\ IsPyInt(f) /\ PyInt(f) >= 0

\* The value of the most recent segment at index <= k whose field counts.
Carried(segs, k, pos) ==
    LET S == {j \in 1..k : FieldCounts(segs[j], pos)}
    IN  IF S = {} THEN None
        ELSE LET last == CHOOSE j \in S : \A x \in S : x <= j
             IN  Some(PyInt(SegmentField(segs[last], pos)))

\* C1: the first parse() of a parser returns one entry per `;`-delimited
\* segment, in order (none for the empty string), and in entry k each of
\* start, length, fileIndex and modifierDepth is the value of the most recent
\* segment at index <= k whose field is present and reads as a non-negative
\* integer, or unset when there is none.
C1_CarryForward ==
    calls >= 1 =>
        LET out  == returned[1].value
            segs == Segments(srcmap)
        IN  /\ Len(out) = Len(segs)
            /\ \A k \in 1..Len(segs) :
                /\ out[k].start = Carried(segs, k, 0)
                /\ out[k].length = Carried(segs, k, 1)
                /\ out[k].file_index = Carried(segs, k, 2)
                /\ out[k].modifier_depth = Carried(segs, k, 4)

\* A decoded entry whose segment gives a negative start and which carries the
\* start of an earlier segment.
C1_Witness ==
    /\ calls = 1
    /\ \E k \in 2..Len(returned[1].value) :
        LET f == SegmentField(Segments(srcmap)[k], 0)
        IN  /\ IsPyInt(f) /\ PyInt(f) < 0
            /\ ~IsNone(returned[1].value[k].start)
            /\ returned[1].value[k].start = returned[1].value[k - 1].start

JumpMarkers == {<<"-">>, <<"i">>, <<"o">>}

\* C2: every decoded entry's jump kind is unset or one of the markers `-`, `i`,
\* `o`, and every `jump` _build_context puts in a record is one of the three.
C2_JumpIsMarker ==
    \A k \in 1..Len(mappings) :
        /\ mappings[k].jump_type \in {None} \cup {Some(j) : j \in JumpMarkers}
        /\ LET c == build_context(mappings[k])
           IN  (~IsNone(c) /\ "jump" \in DOMAIN Get(c).code)
                   => Get(c).code.jump \in JumpMarkers

\* C10: every parse() call on one parser returns the sequence the first call
\* returned, and a sequence returned earlier is not changed by a later call.
C10_Repeatable ==
    \A k \in 1..Len(returned) :
        /\ returned[k].value = returned[1].value
        /\ Deref(returned[k]) = returned[k].value

----------------------------------------------------------------------------
(* The bytecode scanner: C3, C4, C5 (ScanSpec), C9 (FairScanSpec)          *)

\* The buffer the input stands for: the input without a leading `0x`.
Buffer(b) ==
    IF Len(b) >= 2 /\ b[1] = "0" /\ b[2] = "x" THEN SubSeq(b, 3, Len(b)) ELSE b

\* The input is hex digits, with or without the `0x` prefix.
IsHexInput(b) == \A k \in 1..Len(Buffer(b)) : Buffer(b)[k] \in DOMAIN HexDigit

\* The rawBytes of the instructions, one after the other.
RECURSIVE RawBytes(_)
RawBytes(ins) == IF ins = <<>> THEN <<>> ELSE Head(ins)[2] \o RawBytes(Tail(ins))

\* s without its final odd hex digit.
WholeBytes(s) == SubSeq(s, 1, Len(s) - (Len(s) % 2))

\* C3: for a hex-digit input the rawBytes of the returned instructions, in
\* order, make up the prefix-stripped buffer without its final odd digit.
C3_CoversBuffer ==
    (phase = "returned" /\ IsHexInput(bytecode))
        => RawBytes(instructions) = WholeBytes(Buffer(bytecode))

\* The opcode of an emitted instruction and the length it declares, in bytes.
OpcodeOf(ins) == Opcode(SubSeq(ins[2], 1, 2))
DeclaredBytes(opcode) ==
    IF Push1 <= opcode /\ opcode <= Push32 THEN 1 + (opcode - PushBase) ELSE 1

\* The number of hex digits of the first n instructions.
RECURSIVE DigitsBefore(_, _)
DigitsBefore(ins, n) ==
    IF n = 0 THEN 0 ELSE DigitsBefore(ins, n - 1) + Len(ins[n][2])

\* C4: for a hex-digit input the programCounters start at 0, increase
\* strictly, each by the declared length of the instruction before, and each
\* is the byte offset of its opcode byte in the prefix-stripped buffer.
C4_ProgramCounter ==
    IsHexInput(bytecode) =>
        \A k \in 1..Len(instructions) :
            /\ k = 1 => instructions[k][1] = 0
            /\ k > 1 =>
                /\ instructions[k][1] > instructions[k - 1][1]
                /\ instructions[k][1] =
                       instructions[k - 1][1]
                       + DeclaredBytes(OpcodeOf(instructions[k - 1]))
            /\ 2 * instructions[k][1] = DigitsBefore(instructions, k - 1)
            /\ SubSeq(Buffer(bytecode), 2 * instructions[k][1] + 1,
                      2 * instructions[k][1] + 2)
                   = SubSeq(instructions[k][2], 1, 2)

\* A returned scan with an ordinary opcode after two PUSH instructions.
C4_Witness ==
    /\ phase = "returned"
    /\ IsHexInput(bytecode)
    /\ Len(instructions) >= 3
    /\ DeclaredBytes(OpcodeOf(instructions[1])) > 1
    /\ DeclaredBytes(OpcodeOf(instructions[2])) > 1
    /\ instructions[3][1] > 2

\* C5: the scan never ends in an exception.
C5_NeverRaises == phase # "raised"

\* The last emitted instruction is a PUSH with fewer operand bytes than declared.
LastTruncated ==
    /\ instructions # <<>>
    /\ Len(instructions[Len(instructions)][2])
           < 2 * DeclaredBytes(OpcodeOf(instructions[Len(instructions)]))

C9_Shape ==
    (IsHexInput(bytecode) /\ phase \in {"loop", "returned"}) =>
        /\ \A k \in 1..Len(instructions) :
            /\ k < Len(instructions) =>
                   Len(instructions[k][2])
                       = 2 * DeclaredBytes(OpcodeOf(instructions[k]))
            /\ DeclaredBytes(OpcodeOf(instructions[k])) \in 1..33
            /\ Len(instructions[k][2]) \in
                   2..(2 * DeclaredBytes(OpcodeOf(instructions[k])))
        /\ LastTruncated =>
            /\ i >= Len(buf)
            /\ EndsWith(buf, instructions[Len(instructions)][2])
            /\ Len(buf) = DigitsBefore(instructions, Len(instructions))

C9_Advances ==
    (phase = "loop" /\ phase' = "loop") => i' > i

C9_NothingAfterTruncated ==
    (phase = "loop" /\ LastTruncated) => instructions' = instructions

\* C9: the cursor strictly advances on every iteration and the scan of a
\* hex-digit input returns; every instruction but the last has exactly its
\* declared length (1 to 33 bytes); a truncated PUSH holds whatever remains
\* of the buffer and nothing is emitted after it.
C9_TerminatesTruncatedLast ==
    /\ []C9_Shape
    /\ [][C9_Advances]_vars
    /\ [][C9_NothingAfterTruncated]_vars
    /\ (IsHexInput(bytecode) => <>(phase = "returned"))

\* A returned scan of two or more instructions whose last is a truncated PUSH.
C9_Witness ==
    /\ phase = "returned"
    /\ IsHexInput(bytecode)
    /\ Len(instructions) >= 2
    /\ LastTruncated

----------------------------------------------------------------------------
(* The record builder: C6 (BuildSpec), C7 (ContextSpec)                    *)

\* The context of a built record, None when the record has none.
ContextOf(rec) == IF "context" \in DOMAIN rec THEN Some(rec.context) ELSE None

\* C6: _build_instructions returns one record per instruction, in order, with
\* the instruction's pc and bytes; record k takes its context from the mapping
\* at the same index k, an instruction past the last mapping has no context,
\* and the records do not depend on the mappings past the last instruction.
C6_PositionalCorrelation ==
    b_done =>
        /\ Len(b_records) = Len(b_instructions)
        /\ \A k \in 1..Len(b_instructions) :
            /\ b_records[k].pc = b_instructions[k][1]
            /\ b_records[k].bytes = b_instructions[k][2]
            /\ k <= Len(b_mappings)
                   => ContextOf(b_records[k]) = build_context(b_mappings[k])
            /\ k > Len(b_mappings) => IsNone(ContextOf(b_records[k]))

\* More instructions than mappings, the first instruction not at pc 0: it has
\* the context of the first mapping and the last instruction has none.
C6_Witness ==
    /\ b_done
    /\ Len(b_mappings) >= 1
    /\ Len(b_instructions) > Len(b_mappings)
    /\ b_instructions[1][1] # 0
    /\ ~IsNone(ContextOf(b_records[1]))
    /\ IsNone(ContextOf(b_records[Len(b_records)]))

\* The entry has a location: start, length and fileIndex present, fileIndex >= 0.
HasLocation(m) ==
    /\ m.start # None
    /\ m.length # None
    /\ m.file_index # None
    /\ m.file_index[1] >= 0

\* C7: _build_context returns a context exactly when the entry has a location;
\* the context then carries source id = fileIndex and range {start, length},
\* a `jump` exactly when the jump kind is set, and a `modifierDepth` exactly
\* when modifierDepth is present and greater than 0.
C7_ContextFields ==
    c_done =>
        /\ ~IsNone(c_context) <=> HasLocation(c_mapping)
        /\ HasLocation(c_mapping) =>
            LET code == Get(c_context).code
            IN  /\ DOMAIN Get(c_context) = {"code"}
                /\ code.source.id = c_mapping.file_index[1]
                /\ code.source.range.start = c_mapping.start[1]
                /\ code.source.range.length = c_mapping.length[1]
                /\ "jump" \in DOMAIN code <=> c_mapping.jump_type # None
                /\ "jump" \in DOMAIN code => code.jump = c_mapping.jump_type[1]
                /\ "modifierDepth" \in DOMAIN code
                       <=> (c_mapping.modifier_depth # None
                            /\ c_mapping.modifier_depth[1] > 0)
                /\ "modifierDepth" \in DOMAIN code
                       => code.modifierDepth = c_mapping.modifier_depth[1]

\* A context built from an entry whose modifierDepth is 0.
C7_Witness ==
    /\ c_done
    /\ ~IsNone(c_context)
    /\ c_mapping.modifier_depth = Some(0)
    /\ "modifierDepth" \notin DOMAIN Get(c_context).code
    /\ "jump" \in DOMAIN Get(c_context).code

----------------------------------------------------------------------------
(* convert: C8 (ConvertSpec)                                               *)

\* A contract name is requested and no key ends with `:name`.
NoContractMatches ==
    /\ contract_name # None
    /\ contract_name[1] # <<>>
    /\ \A k \in 1..Len(contracts) :
           ~EndsWith(contracts[k][1], <<":">> \o contract_name[1])

\* The bytecode string of the mode: None when the contract has none.
ModeBytecode(env, data) ==
    IF env = "runtime"
    THEN (IF BinRuntimeKey \in DOMAIN data THEN Some(data[BinRuntimeKey])
          ELSE IF BinKey \in DOMAIN data THEN Some(data[BinKey])
          ELSE None)
    ELSE (IF BinKey \in DOMAIN data THEN Some(data[BinKey]) ELSE None)

\* The source-map string of the mode: None when the contract has none.
ModeSrcmap(env, data) ==
    IF env = "runtime"
    THEN (IF SrcmapRuntimeKey \in DOMAIN data THEN Some(data[SrcmapRuntimeKey])
          ELSE None)
    ELSE (IF SrcmapKey \in DOMAIN data THEN Some(data[SrcmapKey]) ELSE None)

MissingOrEmpty(o) == o = None \/ o[1] = <<>>

IsEmptyResult(r) == r.outcome = "returned" /\ DOMAIN r.value = {}

IsDocument(r) == r.outcome = "returned" /\ DOMAIN r.value # {}

\* C8: convert returns the empty dict, and does not raise, when the requested
\* name matches no contract or the mode's bytecode or source map is missing or
\* empty; otherwise it decodes the mode's strings: the runtime bytecode (the
\* deployment bytecode when the contract has no runtime bytecode) and runtime
\* source map in `runtime` mode, the deployment ones in `create` mode.
C8_EmptyResultAndSelection ==
    (result.outcome \in {"returned", "raised"} /\ contracts # <<>>) =>
        /\ NoContractMatches => IsEmptyResult(result)
        /\ ~NoContractMatches =>
            LET data == contracts[FindContract(contracts, contract_name)][2]
                code == ModeBytecode(environment, data)
                map  == ModeSrcmap(environment, data)
            IN  /\ (MissingOrEmpty(code) \/ MissingOrEmpty(map))
                       => IsEmptyResult(result)
                /\ ~(MissingOrEmpty(code) \/ MissingOrEmpty(map))
                       => /\ ~IsEmptyResult(result)
                          /\ IsDocument(result) =>
                              /\ result.value.environment = environment
                              /\ result.value.contract.bytecode = Buffer(code[1])
                              /\ result.value.instructions =
                                     build_instructions(
                                         parse_bytecode_to_instructions(code[1]).instructions,
                                         ParseFresh(map[1]))

\* A `runtime` conversion of a contract without runtime bytecode that returns
\* a document.
C8_Witness ==
    /\ IsDocument(result)
    /\ environment = "runtime"
    /\ BinRuntimeKey \notin
           DOMAIN contracts[FindContract(contracts, contract_name)][2]
    /\ Len(result.value.instructions) >= 2

====
